---- MODULE Spec2Model ----
(***************************************************************************)
(* Model of MikeWindows.h: win32_error, Window, AppWindow<T> (class        *)
(* registration, window creation, the WndProc dispatch entry point and the *)
(* default handlers) and MainWindow<T>.                                    *)
(*                                                                         *)
(* Machine words (WPARAM, LPARAM, LRESULT) are little-endian sequences of  *)
(* 16-bit words: 2 words on a 32-bit build, 4 words on a 64-bit build.     *)
(* DWORD / UINT / BOOL values are always 2 words.  HWND values and object  *)
(* pointers are small naturals, 0 is the null handle / null pointer.       *)
(***************************************************************************)
EXTENDS Integers, Sequences, FiniteSets, TLC

(***************************************************************************)
(* Bounds                                                                  *)
(***************************************************************************)
\* number of window objects the application constructs
MaxObjects == 2
\* number of messages the platform may send to a handle before WM_NCCREATE
MaxPre == 1
\* length of the descriptions FormatMessageA supplies
MaxDesc == 4

(***************************************************************************)
(* Platform constants used by the source                                   *)
(***************************************************************************)
WM_CREATE == 1
WM_DESTROY == 2
WM_PAINT == 15
WM_CLOSE == 16
WM_SETCURSOR == 32
WM_GETMINMAXINFO == 36
WM_NCCREATE == 129
WM_NCDESTROY == 130
WM_NCHITTEST == 132
WM_MOUSEMOVE == 512
WM_LBUTTONUP == 514
ERROR_CLASS_ALREADY_EXISTS == 1410
ERROR_NOT_ENOUGH_MEMORY == 8
ERROR_INVALID_PARAMETER == 87
QuitCode == 1
HandleBase == 10

\* Supported, were the case of WM_PAINT missing from the switch
Supported_NoPaint == {WM_DESTROY, WM_LBUTTONUP, WM_MOUSEMOVE, WM_NCHITTEST, WM_SETCURSOR}

\* the codes of the switch in WndProc, and the handler each one selects
Supported == {WM_DESTROY, WM_LBUTTONUP, WM_MOUSEMOVE, WM_NCHITTEST, WM_PAINT, WM_SETCURSOR}

HandlerOf(message) ==
    CASE message = WM_DESTROY -> "on_destroy"
      [] message = WM_LBUTTONUP -> "on_left_button_up"
      [] message = WM_MOUSEMOVE -> "on_mouse_move"
      [] message = WM_NCHITTEST -> "on_hittest"
      [] message = WM_PAINT -> "on_paint"
      [] message = WM_SETCURSOR -> "on_set_cursor"
      [] OTHER -> "on_message"

(***************************************************************************)
(* Concrete window types of the application.  Main derives MainWindow and  *)
(* overrides nothing; Custom derives AppWindow and overrides three         *)
(* handlers.                                                               *)
(***************************************************************************)
Types == {"Main", "Custom"}

Base(T) == IF T = "Main" THEN "MainWindow" ELSE "AppWindow"

Overrides(T) == IF T = "Custom" THEN {"on_hittest", "on_mouse_move", "on_message"} ELSE {}

Objects == 1..MaxObjects
Handles == {HandleBase + i : i \in 1..MaxObjects}
Builds == {2, 4}

(***************************************************************************)
(* Machine-word arithmetic                                                 *)
(***************************************************************************)
Zero(n) == [i \in 1..n |-> 0]
One(n) == [i \in 1..n |-> IF i = 1 THEN 1 ELSE 0]
MinusOne(n) == [i \in 1..n |-> 65535]

\* (DWORD)v, (UINT)v, (BOOL)v: the low 32 bits
ToDWORD(v) == <<v[1], v[2]>>

\* conversion of an unsigned 32-bit value to a machine word
ZeroExtend(d, n) == [i \in 1..n |-> IF i <= 2 THEN d[i] ELSE 0]

LOWORD(v) == v[1]
HIWORD(v) == v[2]

\* (int)(short)w
Short(w) == IF w >= 32768 THEN w - 65536 ELSE w

\* (WORD)x of an int
ToWORD(x) == x % 65536

MAKELPARAM(lo, hi, n) == ZeroExtend(<<ToWORD(lo), ToWORD(hi)>>, n)

\* the numeric value of an unsigned word sequence, as 4 words
Widen(v) == [i \in 1..4 |-> IF i <= Len(v) THEN v[i] ELSE 0]

VARIABLES
    build,        \* machine word size of the build, in 16-bit words
    pc,           \* object -> position in AppWindow's constructor
    otype,        \* object -> concrete type T ("" before construction)
    m_window,     \* object -> Window::m_window
    thrown,       \* <<>> or <<the win32_error the constructor call in progress threw>>
    reg,          \* <<>> or <<what RegisterClassEx reported to that constructor call>>
    classes,      \* platform: registered class names (one per T)
    hstate,       \* platform: handle -> life cycle state
    hclass,       \* platform: handle -> type whose WndProc the class names
    createParam,  \* platform: handle -> lpCreateParams of its CREATESTRUCT
    userdata,     \* platform: handle -> GWLP_USERDATA slot
    preSent,      \* platform: messages the pending CreateWindow sent before WM_NCCREATE
    cwRet,        \* value the pending CreateWindow call returns
    lastError,    \* platform: GetLastError()
    quit,         \* exit codes passed to PostQuitMessage, in order
    crashed,      \* the process died
    last,         \* <<>> or <<record of the WndProc call the latest step made>>
    ncalls,       \* platform calls the constructor call in progress has made so far
    fmt           \* <<>> or <<a call of win32_error::format: its arguments and result>>

vars == <<build, pc, otype, m_window, thrown, reg, classes, hstate, hclass,
          createParam, userdata, preSent, cwRet, lastError, quit, crashed, last,
          ncalls, fmt>>

ErrCodes == {ERROR_NOT_ENOUGH_MEMORY, ERROR_INVALID_PARAMETER, ERROR_CLASS_ALREADY_EXISTS}

\* The inputs of one WndProc call: the payload of the message, and the answer of the
\* platform's default processing or of the application's own handler
Inputs(n) ==
    {[wParam |-> ZeroExtend(<<1, 0>>, n), lParam |-> ZeroExtend(<<7, 1>>, n), ans |-> One(n)],
     [wParam |-> ZeroExtend(<<65535, 1>>, n), lParam |-> ZeroExtend(<<65535, 32768>>, n),
      ans |-> MinusOne(n)],
     [wParam |-> Zero(n), lParam |-> ZeroExtend(<<32768, 65535>>, n), ans |-> Zero(n)]}
      \cup (IF n = 4
            THEN {[wParam |-> <<9, 0, 1, 0>>, lParam |-> <<65529, 1, 1, 0>>, ans |-> <<2, 0, 1, 0>>]}
            ELSE {})

\* outcomes of calling a member function through a null pointer
UB == {"call", "crash"}

Init ==
    /\ build \in Builds
    /\ pc = [o \in Objects |-> "none"]
    /\ otype = [o \in Objects |-> ""]
    /\ m_window = [o \in Objects |-> 0]
    /\ thrown = <<>>
    /\ reg = <<>>
    /\ classes = {}
    /\ hstate = [h \in Handles |-> "free"]
    /\ hclass = [h \in Handles |-> ""]
    /\ createParam = [h \in Handles |-> 0]
    /\ userdata = [h \in Handles |-> 0]
    /\ preSent = 0
    /\ cwRet = 0
    /\ lastError = 0
    /\ quit = <<>>
    /\ crashed = FALSE
    /\ last = <<>>
    /\ ncalls = [reg |-> 0, create |-> 0]
    /\ fmt = <<>>


(***************************************************************************)
(* Handlers                                                                *)
(***************************************************************************)
\* Resolve, were the call made on the base class instead of on T
Resolve_Base(T, fn) == "AppWindow"

\* this_->fn on a T *: the class whose member static name lookup selects
Resolve(T, fn) ==
    IF fn \in Overrides(T) THEN T
    ELSE IF Base(T) = "MainWindow" /\ fn = "on_destroy" THEN "MainWindow"
    ELSE "AppWindow"

\* one call of ::DefWindowProc and the answer the platform gave
DefCall(hwnd, message, wParam, lParam, ans) ==
    [hwnd |-> hwnd, message |-> message, wParam |-> wParam, lParam |-> lParam, result |-> ans]

NoEffect == [defs |-> <<>>, posts |-> <<>>, result |-> <<>>]

AppWindow_on_destroy(hwnd) == NoEffect

AppWindow_on_left_button_up(hwnd, x, y, flags) == NoEffect

AppWindow_on_mouse_move(hwnd, x, y, flags) == NoEffect

AppWindow_on_paint(hwnd) == NoEffect

\* FORWARD_WM_NCHITTEST: (UINT)(DWORD)DefWindowProc(hwnd, WM_NCHITTEST, 0L, MAKELPARAM(x, y))
AppWindow_on_hittest(hwnd, x, y, ans, n) ==
    [defs |-> <<DefCall(hwnd, WM_NCHITTEST, Zero(n), MAKELPARAM(x, y, n), ans)>>,
     posts |-> <<>>,
     result |-> <<ToDWORD(ans)>>]

\* FORWARD_WM_SETCURSOR: (BOOL)(DWORD)DefWindowProc(hwnd, WM_SETCURSOR, (WPARAM)hwndCursor,
\*                                                  MAKELPARAM(codeHitTest, msg))
AppWindow_on_set_cursor(hwnd, hwndCursor, codeHitTest, msg, ans, n) ==
    [defs |-> <<DefCall(hwnd, WM_SETCURSOR, hwndCursor, MAKELPARAM(codeHitTest, msg, n), ans)>>,
     posts |-> <<>>,
     result |-> <<ToDWORD(ans)>>]

AppWindow_on_message(window, message, wParam, lParam, ans) ==
    [defs |-> <<DefCall(window, message, wParam, lParam, ans)>>,
     posts |-> <<>>,
     result |-> <<ans>>]

\* PostQuitMessage(1)
MainWindow_on_destroy(hwnd) ==
    [defs |-> <<>>, posts |-> <<QuitCode>>, result |-> <<>>]

\* a handler the concrete type defines itself: application code, which answers
\* whatever it likes in the handler's return type
Application_handler(fn, ans) ==
    [defs |-> <<>>,
     posts |-> <<>>,
     result |-> CASE fn \in {"on_hittest", "on_set_cursor"} -> <<ToDWORD(ans)>>
                  [] fn = "on_message" -> <<ans>>
                  [] OTHER -> <<>>]

\* the body that runs for this_->fn(args) once Resolve has picked the class
Body(cls, fn, args, ans, n) ==
    CASE cls \notin {"AppWindow", "MainWindow"} -> Application_handler(fn, ans)
      [] cls = "MainWindow" -> MainWindow_on_destroy(args[1])
      [] fn = "on_destroy" -> AppWindow_on_destroy(args[1])
      [] fn = "on_left_button_up" -> AppWindow_on_left_button_up(args[1], args[2], args[3], args[4])
      [] fn = "on_mouse_move" -> AppWindow_on_mouse_move(args[1], args[2], args[3], args[4])
      [] fn = "on_paint" -> AppWindow_on_paint(args[1])
      [] fn = "on_hittest" -> AppWindow_on_hittest(args[1], args[2], args[3], ans, n)
      [] fn = "on_set_cursor" -> AppWindow_on_set_cursor(args[1], args[2], args[3], args[4], ans, n)
      [] OTHER -> AppWindow_on_message(args[1], args[2], args[3], args[4], ans)

Invoke(this_, T, fn, args, ans, n) ==
    LET cls == Resolve(T, fn)
        b == Body(cls, fn, args, ans, n)
    IN [call |-> [this |-> this_, cls |-> cls, fn |-> fn, args |-> args, result |-> b.result],
        defs |-> b.defs,
        posts |-> b.posts]

(***************************************************************************)
(* The message crackers HANDLE_MSG expands to                              *)
(***************************************************************************)
\* (UINT)(wParam) of the mouse messages
CrackFlags(wParam) == ToDWORD(wParam)

CrackX(lParam) == Short(LOWORD(lParam))

CrackY(lParam) == Short(HIWORD(lParam))

CrackArgs(hwnd, message, wParam, lParam) ==
    CASE message \in {WM_LBUTTONUP, WM_MOUSEMOVE} ->
             <<hwnd, CrackX(lParam), CrackY(lParam), CrackFlags(wParam)>>
      [] message = WM_NCHITTEST -> <<hwnd, CrackX(lParam), CrackY(lParam)>>
      [] message = WM_SETCURSOR -> <<hwnd, wParam, LOWORD(lParam), HIWORD(lParam)>>
      [] message \in {WM_DESTROY, WM_PAINT} -> <<hwnd>>
      [] OTHER -> <<hwnd, message, wParam, lParam>>

\* what "case (message): return HANDLE_##message(...)" returns once the handler has run:
\* 0L after a void handler, (LRESULT)(DWORD)(UINT)r or (LRESULT)(DWORD)(BOOL)r otherwise
CrackResult(message, result, n) ==
    IF message \in {WM_NCHITTEST, WM_SETCURSOR}
    THEN ZeroExtend(ToDWORD(result[1]), n)
    ELSE Zero(n)

(***************************************************************************)
(* AppWindow<T>::WndProc                                                   *)
(***************************************************************************)
\* IsCreationMessage, were the binding done on WM_CREATE
IsCreationMessage_Late(message) == message = WM_CREATE

IsCreationMessage(message) == message = WM_NCCREATE

\* reinterpret_cast<AppWindow *>(param)->m_window = window
NcCreateHandle(window, param) == [m_window EXCEPT ![param] = window]

\* NcCreateUserData, were the owner kept in one slot shared by all handles
NcCreateUserData_Shared(window, param) == [h \in Handles |-> param]

\* NcCreateUserData, were the SetWindowLongPtr call missing
NcCreateUserData_Missing(window, param) == userdata

\* ::SetWindowLongPtr(window, GWLP_USERDATA, reinterpret_cast<LONG_PTR>(param))
NcCreateUserData(window, param) == [userdata EXCEPT ![window] = param]

\* Route, were the cases of the void handlers to fall out of the switch
Route_FallThrough(this_, message) ==
    IF this_ # 0 /\ message \in {WM_NCHITTEST, WM_SETCURSOR} THEN HandlerOf(message)
    ELSE "on_message"

\* the handler the switch (or the final return statement) calls
Route(this_, message) ==
    IF this_ # 0 /\ message \in Supported THEN HandlerOf(message) ELSE "on_message"

\* The effect of one call of WndProc<T>, T the type of the handle's class.  ans is
\* the answer of the default processing or of the application's own handler; ub is
\* the outcome of this_->on_message when this_ is null.
WndProc(window, message, wParam, lParam, ans, ub) ==
    LET bind == IsCreationMessage(message)
        param == createParam[window]
        ud == IF bind THEN NcCreateUserData(window, param) ELSE userdata
        mw == IF bind THEN NcCreateHandle(window, param) ELSE m_window
        this_ == ud[window]
        T == hclass[window]
        fn == Route(this_, message)
        args == IF fn = "on_message" THEN <<window, message, wParam, lParam>>
                ELSE CrackArgs(window, message, wParam, lParam)
        inv == Invoke(this_, T, fn, args, ans, build)
    IN IF this_ = 0 /\ ub = "crash"
       THEN [userdata |-> ud, m_window |-> mw, owner |-> this_, bind |-> bind,
             calls |-> <<>>, defs |-> <<>>, posts |-> <<>>,
             ret |-> Zero(build), crash |-> TRUE]
       ELSE [userdata |-> ud, m_window |-> mw, owner |-> this_, bind |-> bind,
             calls |-> <<inv.call>>, defs |-> inv.defs, posts |-> inv.posts,
             ret |-> IF fn = "on_message" THEN inv.call.result[1]
                     ELSE CrackResult(message, inv.call.result, build),
             crash |-> FALSE]

\* the owner WndProc finds bound to the handle of this message
Owner(window, message) ==
    IF IsCreationMessage(message) THEN createParam[window] ELSE userdata[window]

\* the outcomes the call this_->on_message can have
Outcomes(window, message) == IF Owner(window, message) = 0 THEN UB ELSE {"call"}

\* the platform calls WndProc(h, message, wParam, lParam); next is the state the
\* handle is in when the call has returned
Dispatched(h, message, wParam, lParam, e, next) ==
    /\ userdata' = e.userdata
    /\ m_window' = e.m_window
    /\ quit' = quit \o e.posts
    /\ crashed' = e.crash
    /\ last' = <<[hwnd |-> h, message |-> message, wParam |-> wParam, lParam |-> lParam,
                  before |-> hstate[h], sent |-> preSent, bound |-> userdata[h],
                  bind |-> e.bind, owner |-> e.owner, calls |-> e.calls, defs |-> e.defs,
                  posts |-> e.posts, ret |-> e.ret, crash |-> e.crash]>>
    /\ hstate' = [hstate EXCEPT ![h] = IF e.crash THEN @ ELSE next]

(***************************************************************************)
(* win32_error, class registration and window creation                     *)
(***************************************************************************)
\* win32_error(message, GetLastError()): the context label and the code format() prints
win32_error(message, error_code) == [label |-> message, code |-> error_code]

\* WndProcAddress, were WndProc one function instead of a member of the template
WndProcAddress_Shared(T) == 4096

\* the address of AppWindow<T>::WndProc, one instantiation per T
WndProcAddress(T) == IF T = "Main" THEN 4096 ELSE 4352

\* std::to_wstring(reinterpret_cast<uintptr_t>(&WndProc)): the decimal digits of the address
RECURSIVE to_wstring(_)
to_wstring(v) == IF v < 10 THEN <<v>> ELSE to_wstring(v \div 10) \o <<v % 10>>

\* get_class_name, were the address narrowed to its low byte
get_class_name_LowByte(T) == to_wstring(WndProcAddress(T) % 256)

get_class_name(T) == to_wstring(WndProcAddress(T))

\* RegisterFails, were the result of RegisterClassEx ignored
RegisterFails_Never(ok, err) == FALSE

\* RegisterFails, were every failed registration an error
RegisterFails_Strict(ok, err) == ~ok

\* !RegisterClassEx(&wndclass) && GetLastError() != ERROR_CLASS_ALREADY_EXISTS
RegisterFails(ok, err) == ~ok /\ err # ERROR_CLASS_ALREADY_EXISTS

\* RegisterError, were the last error read after it had been reset
RegisterError_Stale(err) == win32_error("RegisterClassEx", 0)

RegisterError(err) == win32_error("RegisterClassEx", err)

\* CreateAssign, were m_window one static member shared by all windows
CreateAssign_Shared(o, result) == [p \in Objects |-> result]

\* CreateAssign, were a null result not stored
CreateAssign_KeepOnNull(o, result) ==
    IF result = 0 THEN m_window ELSE [m_window EXCEPT ![o] = result]

\* m_window = CreateWindow(...)
CreateAssign(o, result) == [m_window EXCEPT ![o] = result]

CreateError(err) == win32_error("CreateWindow", err)

Active == \E o \in Objects : pc[o] \in {"register", "create", "increate", "createret"}

\* the message pump runs: no constructor and no DestroyWindow is in progress
Idle == ~crashed /\ ~Active /\ \A h \in Handles : hstate[h] # "destroying"

\* the handle a construction in progress is creating
Creating(o, h) == pc[o] = "increate" /\ createParam[h] = o /\ hstate[h] \notin {"free", "dead"}

\* AppWindow(creation_params) is entered; Window() has run
Construct(o, T) ==
    /\ Idle
    /\ pc[o] = "none"
    /\ \A p \in Objects : p < o => pc[p] # "none"
    /\ pc' = [pc EXCEPT ![o] = "register"]
    /\ otype' = [otype EXCEPT ![o] = T]
    /\ m_window' = [m_window EXCEPT ![o] = 0]
    /\ thrown' = <<>>
    /\ reg' = <<>>
    /\ last' = <<>>
    /\ ncalls' = [reg |-> 0, create |-> 0]
    /\ UNCHANGED <<build, fmt, classes, hstate, hclass, createParam, userdata,
                   preSent, cwRet, lastError, quit, crashed>>

\* register_class: RegisterClassEx succeeds (ok) or fails with last error err
register_class(o, ok, err) ==
    LET class_name == get_class_name(otype[o])
        registered == \E c \in classes : c.name = class_name
    IN /\ ~crashed
       /\ pc[o] = "register"
       /\ ok => ~registered
       /\ (~ok /\ err = ERROR_CLASS_ALREADY_EXISTS) => registered
       /\ classes' = IF ok THEN classes \cup {[name |-> class_name, proc |-> otype[o]]}
                     ELSE classes
       /\ lastError' = IF ok THEN lastError ELSE err
       /\ reg' = <<[obj |-> o, ok |-> ok, err |-> IF ok THEN 0 ELSE err]>>
       /\ IF RegisterFails(ok, lastError')
          THEN /\ thrown' = <<[obj |-> o, error |-> RegisterError(lastError')]>>
               /\ pc' = [pc EXCEPT ![o] = "failed"]
          ELSE /\ thrown' = thrown
               /\ pc' = [pc EXCEPT ![o] = "create"]
       /\ last' = <<>>
       /\ ncalls' = [ncalls EXCEPT !.reg = @ + 1]
       /\ UNCHANGED <<build, fmt, otype, m_window, hstate, hclass, createParam, userdata,
                      preSent, cwRet, quit, crashed>>

\* CreateWindow fails before the platform has made a handle
CreateWindowFail(o, err) ==
    /\ ~crashed
    /\ pc[o] = "create"
    /\ cwRet' = 0
    /\ lastError' = err
    /\ pc' = [pc EXCEPT ![o] = "createret"]
    /\ last' = <<>>
    /\ ncalls' = [ncalls EXCEPT !.create = @ + 1]
    /\ UNCHANGED <<build, fmt, otype, m_window, thrown, reg, classes, hstate, hclass,
                   createParam, userdata, preSent, quit, crashed>>

\* CreateWindow(class_name, ..., static_cast<T *>(this)): the platform makes a handle
\* of the class registered under class_name
CreateWindowAlloc(o, h) ==
    LET class_name == get_class_name(otype[o])
    IN /\ ~crashed
       /\ pc[o] = "create"
       /\ hstate[h] = "free"
       /\ \A g \in Handles : g < h => hstate[g] # "free"
       /\ \E c \in classes :
             /\ c.name = class_name
             /\ hclass' = [hclass EXCEPT ![h] = c.proc]
       /\ hstate' = [hstate EXCEPT ![h] = "pre"]
       /\ createParam' = [createParam EXCEPT ![h] = o]
       /\ preSent' = 0
       /\ pc' = [pc EXCEPT ![o] = "increate"]
       /\ last' = <<>>
       /\ ncalls' = [ncalls EXCEPT !.create = @ + 1]
       /\ UNCHANGED <<build, fmt, otype, m_window, thrown, reg, classes, userdata,
                      cwRet, lastError, quit, crashed>>

\* a message the platform sends before WM_NCCREATE (WM_GETMINMAXINFO)
DeliverPre(h, in, ub) ==
    /\ ~crashed
    /\ hstate[h] = "pre"
    /\ preSent < MaxPre
    /\ preSent' = preSent + 1
    /\ Dispatched(h, WM_GETMINMAXINFO, in.wParam, in.lParam,
                  WndProc(h, WM_GETMINMAXINFO, in.wParam, in.lParam, in.ans, ub), "pre")
    /\ UNCHANGED <<build, fmt, ncalls, pc, otype, thrown, reg, classes, hclass, createParam,
                   cwRet, lastError>>

\* WM_NCCREATE; creation is abandoned when the answer is FALSE
DeliverNcCreate(h, in, ub) ==
    LET e == WndProc(h, WM_NCCREATE, Zero(build), in.lParam, in.ans, ub)
    IN /\ ~crashed
       /\ hstate[h] = "pre"
       /\ Dispatched(h, WM_NCCREATE, Zero(build), in.lParam, e,
                     IF e.ret = Zero(build) THEN "failing" ELSE "nccreated")
       /\ UNCHANGED <<build, fmt, ncalls, pc, otype, thrown, reg, classes, hclass, createParam,
                      preSent, cwRet, lastError>>

\* WM_CREATE; creation is abandoned and the window destroyed when the answer is -1
DeliverCreate(h, in, ub) ==
    LET e == WndProc(h, WM_CREATE, Zero(build), in.lParam, in.ans, ub)
    IN /\ ~crashed
       /\ hstate[h] = "nccreated"
       /\ Dispatched(h, WM_CREATE, Zero(build), in.lParam, e,
                     IF e.ret = MinusOne(build) THEN "faildestroy" ELSE "ready")
       /\ UNCHANGED <<build, fmt, ncalls, pc, otype, thrown, reg, classes, hclass, createParam,
                      preSent, cwRet, lastError>>

PumpCodes == {WM_LBUTTONUP, WM_MOUSEMOVE, WM_NCHITTEST, WM_PAINT, WM_SETCURSOR, WM_CLOSE}

\* the message pump delivers a message to a live window
Deliver(h, message, in, ub) ==
    /\ Idle
    /\ hstate[h] = "live"
    /\ Dispatched(h, message, in.wParam, in.lParam,
                  WndProc(h, message, in.wParam, in.lParam, in.ans, ub), "live")
    /\ UNCHANGED <<build, fmt, ncalls, pc, otype, thrown, reg, classes, hclass, createParam,
                   preSent, cwRet, lastError>>

\* DestroyWindow sends WM_DESTROY
DeliverDestroy(h, in, ub) ==
    /\ ~crashed
    /\ \/ hstate[h] = "faildestroy"
       \/ hstate[h] = "live" /\ Idle
    /\ Dispatched(h, WM_DESTROY, Zero(build), Zero(build),
                  WndProc(h, WM_DESTROY, Zero(build), Zero(build), in.ans, ub),
                  IF hstate[h] = "live" THEN "destroying" ELSE "faildestroyed")
    /\ UNCHANGED <<build, fmt, ncalls, pc, otype, thrown, reg, classes, hclass, createParam,
                   preSent, cwRet, lastError>>

\* ... and then WM_NCDESTROY, the last message of a handle
DeliverNcDestroy(h, in, ub) ==
    /\ ~crashed
    /\ hstate[h] \in {"destroying", "failing", "faildestroyed"}
    /\ Dispatched(h, WM_NCDESTROY, Zero(build), Zero(build),
                  WndProc(h, WM_NCDESTROY, Zero(build), Zero(build), in.ans, ub),
                  IF hstate[h] = "destroying" THEN "dead" ELSE "faildead")
    /\ UNCHANGED <<build, fmt, ncalls, pc, otype, thrown, reg, classes, hclass, createParam,
                   preSent, cwRet, lastError>>

\* CreateWindow returns the handle
CreateWindowSucceed(o, h) ==
    /\ ~crashed
    /\ Creating(o, h)
    /\ hstate[h] = "ready"
    /\ hstate' = [hstate EXCEPT ![h] = "live"]
    /\ cwRet' = h
    /\ pc' = [pc EXCEPT ![o] = "createret"]
    /\ last' = <<>>
    /\ UNCHANGED <<build, fmt, ncalls, otype, m_window, thrown, reg, classes, hclass, createParam,
                   userdata, preSent, lastError, quit, crashed>>

\* CreateWindow returns NULL: the handle it had made is gone
CreateWindowAbort(o, h, err) ==
    /\ ~crashed
    /\ Creating(o, h)
    /\ hstate[h] = "faildead"
    /\ hstate' = [hstate EXCEPT ![h] = "dead"]
    /\ cwRet' = 0
    /\ lastError' = err
    /\ pc' = [pc EXCEPT ![o] = "createret"]
    /\ last' = <<>>
    /\ UNCHANGED <<build, fmt, ncalls, otype, m_window, thrown, reg, classes, hclass, createParam,
                   userdata, preSent, quit, crashed>>

\* create: m_window = CreateWindow(...); if (!m_window) throw win32_error("CreateWindow")
create(o) ==
    /\ ~crashed
    /\ pc[o] = "createret"
    /\ m_window' = CreateAssign(o, cwRet)
    /\ IF m_window'[o] = 0
       THEN /\ thrown' = <<[obj |-> o, error |-> CreateError(lastError)]>>
            /\ pc' = [pc EXCEPT ![o] = "failed"]
       ELSE /\ thrown' = thrown
            /\ pc' = [pc EXCEPT ![o] = "constructed"]
    /\ last' = <<>>
    /\ UNCHANGED <<build, fmt, ncalls, otype, reg, classes, hstate, hclass, createParam,
                   userdata, preSent, cwRet, lastError, quit, crashed>>

Next ==
    \/ \E o \in Objects, T \in Types : Construct(o, T)
    \/ \E o \in Objects, ok \in BOOLEAN, err \in ErrCodes : register_class(o, ok, err)
    \/ \E o \in Objects, err \in ErrCodes : CreateWindowFail(o, err)
    \/ \E o \in Objects, h \in Handles : CreateWindowAlloc(o, h)
    \/ \E h \in Handles, in \in Inputs(build) : \E ub \in Outcomes(h, WM_GETMINMAXINFO) :
          DeliverPre(h, in, ub)
    \/ \E h \in Handles, in \in Inputs(build) : \E ub \in Outcomes(h, WM_NCCREATE) :
          DeliverNcCreate(h, in, ub)
    \/ \E h \in Handles, in \in Inputs(build) : \E ub \in Outcomes(h, WM_CREATE) :
          DeliverCreate(h, in, ub)
    \/ \E h \in Handles, m \in PumpCodes, in \in Inputs(build) : \E ub \in Outcomes(h, m) :
          Deliver(h, m, in, ub)
    \/ \E h \in Handles, in \in Inputs(build) : \E ub \in Outcomes(h, WM_DESTROY) :
          DeliverDestroy(h, in, ub)
    \/ \E h \in Handles, in \in Inputs(build) : \E ub \in Outcomes(h, WM_NCDESTROY) :
          DeliverNcDestroy(h, in, ub)
    \/ \E o \in Objects, h \in Handles : CreateWindowSucceed(o, h)
    \/ \E o \in Objects, h \in Handles, err \in ErrCodes : CreateWindowAbort(o, h, err)
    \/ \E o \in Objects : create(o)

Spec == Init /\ [][Next]_vars


(***************************************************************************)
(* Properties                                                              *)
(***************************************************************************)
\* the WndProc call the latest step made
Call == last[1]

Delivered == last # <<>>

\* a handle is bound: the call found an owner and did not kill the process
BoundCall == Delivered /\ Call.owner # 0 /\ ~Call.crash

\* C1: an object whose constructor has returned holds a non-null handle, that handle
\* is the one the platform made for this construction, and the user storage of the
\* handle holds this object.
C1_ConstructedIsBound ==
    \A o \in Objects : pc[o] = "constructed" =>
        \E h \in Handles :
            /\ m_window[o] = h
            /\ createParam[h] = o
            /\ \A g \in Handles : createParam[g] = o => g = h
            /\ userdata[h] = o

C1_Witness ==
    \E o \in Objects, h \in Handles :
        pc[o] = "constructed" /\ m_window[o] = h /\ hstate[h] = "live" /\ userdata[h] = o

\* what the claims expect of the decoding, written out from the payload
SignedLow(l) == IF l[1] >= 32768 THEN l[1] - 65536 ELSE l[1]

SignedHigh(l) == IF l[2] >= 32768 THEN l[2] - 65536 ELSE l[2]

\* the class expected to supply handler fn for an object of concrete type T
Expected(T, fn) ==
    IF fn \in Overrides(T) THEN T
    ELSE IF T = "Main" /\ fn = "on_destroy" THEN "MainWindow" ELSE "AppWindow"

\* the dispatch part of C2: one call, on the owner, of the handler of the owner's
\* concrete type that matches the code, with these arguments but for the flags
Dispatch_Ok(c) ==
    LET T == otype[c.owner]
        k == c.calls[1]
    IN /\ Len(c.calls) = 1
       /\ k.this = c.owner
       /\ k.cls = Expected(T, k.fn)
       /\ CASE c.message \in {WM_DESTROY, WM_PAINT} ->
                 /\ k.fn = (IF c.message = WM_DESTROY THEN "on_destroy" ELSE "on_paint")
                 /\ k.args = <<c.hwnd>>
            [] c.message \in {WM_LBUTTONUP, WM_MOUSEMOVE} ->
                 /\ k.fn = (IF c.message = WM_LBUTTONUP THEN "on_left_button_up"
                            ELSE "on_mouse_move")
                 /\ Len(k.args) = 4
                 /\ k.args[1] = c.hwnd
                 /\ k.args[2] = SignedLow(c.lParam)
                 /\ k.args[3] = SignedHigh(c.lParam)
            [] c.message = WM_NCHITTEST ->
                 /\ k.fn = "on_hittest"
                 /\ k.args = <<c.hwnd, SignedLow(c.lParam), SignedHigh(c.lParam)>>
            [] c.message = WM_SETCURSOR ->
                 /\ k.fn = "on_set_cursor"
                 /\ k.args = <<c.hwnd, c.wParam, c.lParam[1], c.lParam[2]>>
            [] OTHER ->
                 /\ k.fn = "on_message"
                 /\ k.args = <<c.hwnd, c.message, c.wParam, c.lParam>>

MouseCall(c) == c.message \in {WM_LBUTTONUP, WM_MOUSEMOVE}

\* C2 (amended): every message delivered to a bound handle calls exactly one handler, on
\* the owner: for the six supported codes the matching handler of the owner's concrete
\* type (its override, else the base default) with the decoded arguments, the flags of
\* a mouse message being the low 32 bits of wParam; for any other code on_message with
\* the unmodified (handle, code, wParam, lParam).
C2_DispatchDecoded ==
    BoundCall =>
        /\ Dispatch_Ok(Call)
        /\ MouseCall(Call) => Call.calls[1].args[4] = <<Call.wParam[1], Call.wParam[2]>>

\* a mouse message whose wParam does not fit 32 bits reaches the override of Custom
C2_Witness ==
    /\ BoundCall
    /\ Call.message = WM_MOUSEMOVE
    /\ Call.calls[1].cls = "Custom"
    /\ Call.calls[1].args[2] < 0
    /\ Widen(Call.wParam) # Widen(<<Call.wParam[1], Call.wParam[2]>>)

\* C2 as stated: the flags of a mouse message are wParam
C2_Original ==
    BoundCall =>
        /\ Dispatch_Ok(Call)
        /\ MouseCall(Call) => Widen(Call.calls[1].args[4]) = Widen(Call.wParam)

VoidCodes == {WM_DESTROY, WM_LBUTTONUP, WM_MOUSEMOVE, WM_PAINT}

\* C3 (amended): for destroy, left-button-up, mouse-move and paint delivered to a bound
\* handle, WndProc returns 0 and on_message is not called for that message.
C3_VoidHandlersReturnZero ==
    (BoundCall /\ Call.message \in VoidCodes) =>
        /\ Call.ret = Zero(build)
        /\ \A i \in 1..Len(Call.calls) : Call.calls[i].fn # "on_message"

C3_Witness ==
    /\ BoundCall
    /\ Call.message = WM_PAINT
    /\ Call.ret = Zero(build)
    /\ Call.calls[1].fn = "on_paint"

\* C3 as stated: for those messages WndProc returns the result of on_message
C3_Original ==
    (BoundCall /\ Call.message \in VoidCodes) =>
        \E i \in 1..Len(Call.calls) :
            Call.calls[i].fn = "on_message" /\ Call.calls[i].result = <<Call.ret>>

\* C4: when the user storage of the handle holds no owner, WndProc calls no handler.
C4_NoHandlerOnNullOwner ==
    (Delivered /\ Call.owner = 0) => Call.calls = <<>>

\* C5: WM_DESTROY delivered to a bound handle of a MainWindow object posts quit with
\* exit value 1, and no handler runs for any message that handle receives afterwards.
C5_NothingAfterDestroy ==
    /\ (BoundCall /\ Call.message = WM_DESTROY /\ otype[Call.owner] = "Main") =>
           Call.posts = <<1>>
    /\ (Delivered /\ Call.before \in {"destroying", "faildestroyed"}
          /\ hclass[Call.hwnd] = "Main") => Call.calls = <<>>

\* C6 (amended): the binding is made exactly once per handle, on the creation message
\* WM_NCCREATE and on no other: it stores the handle into the owning object and the
\* object into the user storage before any handler has run on that object for the
\* handle; it is complete before CreateWindow returns, and every message from the
\* creation message on is recovered to the owning object.
C6_BindOnCreationMessage ==
    /\ Delivered =>
          /\ Call.bind <=> Call.message = WM_NCCREATE
          /\ Call.bind => /\ Call.bound = 0
                          /\ Call.before = "pre"
                          /\ m_window[createParam[Call.hwnd]] = Call.hwnd
          /\ Call.before = "pre" /\ ~Call.bind =>
                \A i \in 1..Len(Call.calls) : Call.calls[i].this = 0
          /\ Call.before # "pre" \/ Call.bind =>
                /\ Call.owner = createParam[Call.hwnd]
                /\ Call.owner # 0
    /\ \A h \in Handles :
          /\ hstate[h] \in {"free", "pre"} => userdata[h] = 0
          /\ hstate[h] \notin {"free", "pre"} =>
                userdata[h] = createParam[h] /\ createParam[h] # 0
    /\ \A o \in Objects :
          pc[o] = "createret" /\ cwRet # 0 => userdata[cwRet] = o

\* the creation message arrives after an earlier message and still binds the handle
C6_Witness ==
    /\ Delivered
    /\ Call.message = WM_NCCREATE
    /\ Call.sent > 0
    /\ Call.bind
    /\ userdata[Call.hwnd] = Call.owner
    /\ Call.calls[1].this = createParam[Call.hwnd]

\* C6 as stated: the binding is made on the very first message the handle receives,
\* and every message delivered to the handle is recovered to the owning object
C6_Original ==
    Delivered =>
        /\ Call.bind => Call.sent = 0
        /\ Call.owner = createParam[Call.hwnd]

\* the registration of the constructor call in progress was reported as failed
RegFailed(err) == reg # <<>> /\ ~reg[1].ok /\ reg[1].err = err

\* C7: a construction whose registration is reported as "class already exists" raises
\* no failure for it and goes on to window creation.
C7_AlreadyExistsIsSuccess ==
    RegFailed(ERROR_CLASS_ALREADY_EXISTS) =>
        LET o == reg[1].obj
        IN /\ thrown # <<>> => thrown[1].error.label # "RegisterClassEx"
           /\ \/ pc[o] \in {"create", "increate", "createret", "constructed"}
              \/ pc[o] = "failed" /\ thrown # <<>> /\ thrown[1].error.label = "CreateWindow"

\* the second object of a type is constructed after "class already exists"
C7_Witness ==
    /\ RegFailed(ERROR_CLASS_ALREADY_EXISTS)
    /\ pc[reg[1].obj] = "constructed"
    /\ \E p \in Objects : p # reg[1].obj /\ otype[p] = otype[reg[1].obj]

\* C8: a registration that fails with any other code makes the constructor raise a
\* failure labelled "RegisterClassEx" that carries exactly that code; the constructor
\* ends there, no window is created.
C8_RegisterFailureRaised ==
    \A err \in ErrCodes \ {ERROR_CLASS_ALREADY_EXISTS} :
        RegFailed(err) =>
            LET o == reg[1].obj
            IN /\ pc[o] = "failed"
               /\ thrown = <<[obj |-> o, error |-> [label |-> "RegisterClassEx", code |-> err]]>>
               /\ m_window[o] = 0
               /\ \A h \in Handles : createParam[h] # o

C8_Witness ==
    /\ RegFailed(ERROR_INVALID_PARAMETER)
    /\ lastError = ERROR_INVALID_PARAMETER
    /\ pc[reg[1].obj] = "failed"
    /\ thrown # <<>>
    /\ thrown[1].error.code = ERROR_INVALID_PARAMETER

\* the constructor call in progress got past registration and CreateWindow has
\* returned NULL to it
CreationFailed(o) ==
    /\ reg # <<>>
    /\ reg[1].obj = o
    /\ reg[1].ok \/ reg[1].err = ERROR_CLASS_ALREADY_EXISTS
    /\ pc[o] \in {"failed", "constructed"}
    /\ cwRet = 0

\* C9: when CreateWindow returns no handle the constructor raises a failure labelled
\* "CreateWindow" that carries the platform's error code, and the object's handle is
\* null, also when WM_NCCREATE had stored a handle in the object.
C9_CreateFailureRaised ==
    \A o \in Objects :
        CreationFailed(o) =>
            /\ pc[o] = "failed"
            /\ thrown = <<[obj |-> o, error |-> [label |-> "CreateWindow", code |-> lastError]]>>
            /\ m_window[o] = 0

\* the creation failed after WM_NCCREATE had bound the handle
C9_Witness ==
    \E o \in Objects, h \in Handles :
        /\ CreationFailed(o)
        /\ createParam[h] = o
        /\ userdata[h] = o
        /\ hstate[h] = "dead"
        /\ m_window[o] = 0

\* C10: a hit-test or cursor query delivered to a bound handle whose type does not
\* override the handler returns exactly what the default processing returned.
C10_PassThrough ==
    (BoundCall /\ Call.message \in {WM_NCHITTEST, WM_SETCURSOR}
       /\ HandlerOf(Call.message) \notin Overrides(otype[Call.owner])) =>
        /\ Len(Call.defs) = 1
        /\ Call.ret = Call.defs[1].result


\* C11: the constructed objects and their handles are in one-to-one relation: each
\* constructed object holds a non-null handle no other constructed object holds, the
\* user storage of that handle holds this object, and no handle's user storage holds
\* a constructed object whose handle is another one.
C11_OneToOne ==
    /\ \A o \in Objects : pc[o] = "constructed" =>
          /\ m_window[o] \in Handles
          /\ userdata[m_window[o]] = o
          /\ \A p \in Objects : (p # o /\ pc[p] = "constructed") => m_window[p] # m_window[o]
    /\ \A h \in Handles, o \in Objects :
          (userdata[h] = o /\ pc[o] = "constructed") => m_window[o] = h

\* two constructed objects of one type, each with its own live handle
C11_Witness ==
    \E o, p \in Objects :
        /\ o # p
        /\ pc[o] = "constructed" /\ pc[p] = "constructed"
        /\ otype[o] = otype[p]
        /\ m_window[o] \in Handles /\ m_window[p] \in Handles
        /\ m_window[o] # m_window[p]
        /\ hstate[m_window[o]] = "live" /\ hstate[m_window[p]] = "live"

\* C12: an object's handle is null before its window is created and null again once
\* the window has been destroyed: no object whose constructor has ended holds the
\* handle of a destroyed window.
C12_NullAfterDestroy ==
    \A o \in Objects :
        /\ pc[o] \in {"none", "register", "create"} => m_window[o] = 0
        /\ \A h \in Handles :
              (hstate[h] = "dead" /\ pc[o] \in {"constructed", "failed"}) => m_window[o] # h

\* C13: the class name is a function of the concrete type alone, different types have
\* different names, and every window is of the class whose entry point is the
\* WndProc of the concrete type of the object that created it.
C13_ClassNamePerType ==
    /\ \A T1, T2 \in Types : T1 # T2 => get_class_name(T1) # get_class_name(T2)
    /\ \A c \in classes : c.name = get_class_name(c.proc)
    /\ \A c1, c2 \in classes : c1.name = c2.name => c1.proc = c2.proc
    /\ \A h \in Handles :
          hstate[h] # "free" =>
              /\ createParam[h] \in Objects
              /\ hclass[h] = otype[createParam[h]]

\* windows of both types exist, the second type registered after the first
C13_Witness ==
    /\ Cardinality(classes) = 2
    /\ \E h, g \in Handles :
          /\ hstate[h] = "live" /\ hstate[g] = "live"
          /\ hclass[h] = "Main" /\ hclass[g] = "Custom"
          /\ otype[createParam[g]] = "Custom"


\* the constructor call in progress, or the one that ended last
Latest(o) == pc[o] # "none" /\ \A p \in Objects : p > o => pc[p] = "none"

\* C14: a construction calls RegisterClassEx exactly once and then CreateWindow at most
\* once; CreateWindow is called only after a registration that succeeded or reported
\* "class already exists"; a failed call is not repeated, its failure is raised at once.
C14_NoRetry ==
    \A o \in Objects : Latest(o) =>
        /\ pc[o] = "register" => ncalls = [reg |-> 0, create |-> 0]
        /\ pc[o] # "register" => ncalls.reg = 1
        /\ pc[o] = "create" => ncalls.create = 0
        /\ pc[o] \in {"increate", "createret", "constructed"} => ncalls.create = 1
        /\ ncalls.create \in {0, 1}
        /\ ncalls.create = 1 =>
              /\ ncalls.reg = 1
              /\ reg # <<>>
              /\ reg[1].obj = o
              /\ reg[1].ok \/ reg[1].err = ERROR_CLASS_ALREADY_EXISTS
        /\ pc[o] = "failed" =>
              /\ thrown # <<>>
              /\ thrown[1].error.label = "RegisterClassEx" => ncalls.create = 0
              /\ thrown[1].error.label = "CreateWindow" => ncalls.create = 1

\* CreateWindow has failed and the constructor has ended after one call of each
C14_Witness ==
    \E o \in Objects :
        /\ Latest(o)
        /\ pc[o] = "failed"
        /\ thrown # <<>>
        /\ thrown[1].error.label = "CreateWindow"
        /\ ncalls = [reg |-> 1, create |-> 1]


\* C15: the user storage of a handle is written by the creation message only: once it
\* holds an owner no step changes or clears it, and a WndProc call for one handle
\* leaves the user storage of every other handle as it was.
C15_BindingWrittenOnce ==
    [][/\ \A h \in Handles : userdata[h] # 0 => userdata'[h] = userdata[h]
       /\ \A h \in Handles :
             userdata'[h] # userdata[h] =>
                 /\ last' # <<>>
                 /\ last'[1].hwnd = h
                 /\ last'[1].message = WM_NCCREATE]_vars

\* a bound handle has received WM_NCDESTROY, another handle is bound too, and both
\* still hold their owners
C15_Witness ==
    /\ Delivered
    /\ Call.message = WM_NCDESTROY
    /\ Call.bound # 0
    /\ userdata[Call.hwnd] = Call.bound
    /\ \E g \in Handles : g # Call.hwnd /\ userdata[g] \notin {0, Call.bound}

SixCodes == {WM_DESTROY, WM_LBUTTONUP, WM_MOUSEMOVE, WM_NCHITTEST, WM_PAINT, WM_SETCURSOR}

\* C16: a message delivered to a bound handle runs exactly one handler on the owner:
\* the typed handler and not on_message for the six supported codes, on_message and
\* nothing else for any other code.
C16_ExactlyOneHandler ==
    BoundCall =>
        /\ Len(Call.calls) = 1
        /\ Call.calls[1].this = Call.owner
        /\ Call.message \in SixCodes =>
              /\ Call.calls[1].fn # "on_message"
              /\ Call.calls[1].fn = HandlerOf(Call.message)
        /\ Call.message \notin SixCodes => Call.calls[1].fn = "on_message"

\* WM_CLOSE reaches on_message of the owner, once
C16_Witness ==
    /\ BoundCall
    /\ Call.message = WM_CLOSE
    /\ Len(Call.calls) = 1
    /\ Call.calls[1].fn = "on_message"
    /\ Call.calls[1].this = Call.owner

\* the entry point a class was registered with
EntryPoint(c) == WndProcAddress(c.proc)

\* C17 (amended): there is one dispatch entry point per concrete window type: every
\* type registers its class with its own AppWindow<T>::WndProc, different types with
\* different entry points; the owning object is determined by the per-handle binding
\* and the type by the entry point of the handle's class.
C17_EntryPointPerType ==
    /\ \A c1, c2 \in classes : c1.proc # c2.proc => EntryPoint(c1) # EntryPoint(c2)
    /\ \A o \in Objects :
          pc[o] \in {"create", "increate", "createret", "constructed"} =>
              \E c \in classes :
                  /\ c.proc = otype[o]
                  /\ c.name = get_class_name(otype[o])
    /\ BoundCall =>
          /\ Call.owner = (IF Call.message = WM_NCCREATE THEN createParam[Call.hwnd]
                           ELSE Call.bound)
          /\ Call.calls[1].cls = Expected(hclass[Call.hwnd], Call.calls[1].fn)

\* classes of both types are registered and a message is routed to Custom's override
C17_Witness ==
    /\ Cardinality(classes) = 2
    /\ BoundCall
    /\ hclass[Call.hwnd] = "Custom"
    /\ Call.calls[1].cls = "Custom"
    /\ \E g \in Handles : hclass[g] = "Main" /\ hstate[g] = "live"

\* C17 as stated: all classes are registered with one and the same entry point
C17_Original ==
    \A c1, c2 \in classes : EntryPoint(c1) = EntryPoint(c2)


(***************************************************************************)
(* win32_error::format.  A string is a sequence of characters; the context *)
(* label and the fixed pieces of the text are single elements.             *)
(***************************************************************************)
DigitChars == <<"0", "1", "2", "3", "4", "5", "6", "7", "8", "9">>

\* stream << error_code: the decimal digits of a DWORD
RECURSIVE Decimal(_)
Decimal(v) ==
    IF v < 10 THEN <<DigitChars[v + 1]>>
    ELSE Decimal(v \div 10) \o <<DigitChars[(v % 10) + 1]>>

\* StripCrLf, were only the last character cut off
StripCrLf_OneChar(description) ==
    LET length == Len(description)
    IN IF length >= 2 /\ SubSeq(description, length - 1, length) = <<"\r", "\n">>
       THEN SubSeq(description, 1, length - 1)
       ELSE description

\* if (length >= 2 && 0 == strcmp(description + length - 2, "\r\n"))
\*     description[length - 2] = '\0';
StripCrLf(description) ==
    LET length == Len(description)
    IN IF length >= 2 /\ SubSeq(description, length - 1, length) = <<"\r", "\n">>
       THEN SubSeq(description, 1, length - 2)
       ELSE description

\* supplied: FormatMessageA returned nonzero and set description
format(message, error_code, supplied, description) ==
    LET stream == <<message, ": error ">> \o Decimal(error_code)
    IN IF supplied THEN stream \o <<": ">> \o StripCrLf(description) ELSE stream

Labels == {"RegisterClassEx", "CreateWindow"}

Chars == {"a", "\r", "\n"}

\* the non-empty descriptions of at most MaxDesc characters
Descriptions == UNION {[1..n -> Chars] : n \in 1..MaxDesc}

FormatArgs ==
    {[message |-> m, error_code |-> c, supplied |-> TRUE, description |-> d, text |-> <<>>] :
        m \in Labels, c \in ErrCodes \cup {0}, d \in Descriptions}
      \cup
    {[message |-> m, error_code |-> c, supplied |-> FALSE, description |-> <<>>, text |-> <<>>] :
        m \in Labels, c \in ErrCodes \cup {0}}

\* a win32_error is about to be constructed; no window object exists
InitFormat ==
    /\ build \in Builds
    /\ pc = [o \in Objects |-> "none"]
    /\ otype = [o \in Objects |-> ""]
    /\ m_window = [o \in Objects |-> 0]
    /\ thrown = <<>>
    /\ reg = <<>>
    /\ classes = {}
    /\ hstate = [h \in Handles |-> "free"]
    /\ hclass = [h \in Handles |-> ""]
    /\ createParam = [h \in Handles |-> 0]
    /\ userdata = [h \in Handles |-> 0]
    /\ preSent = 0
    /\ cwRet = 0
    /\ lastError = 0
    /\ quit = <<>>
    /\ crashed = FALSE
    /\ last = <<>>
    /\ ncalls = [reg |-> 0, create |-> 0]
    /\ \E a \in FormatArgs : fmt = <<a>>

\* win32_error(message, error_code) runs format
Format ==
    /\ fmt # <<>>
    /\ fmt[1].text = <<>>
    /\ fmt' = <<[fmt[1] EXCEPT !.text = <<format(fmt[1].message, fmt[1].error_code,
                                                 fmt[1].supplied, fmt[1].description)>>]>>
    /\ UNCHANGED <<build, pc, otype, m_window, thrown, reg, classes, hstate, hclass,
                   createParam, userdata, preSent, cwRet, lastError, quit, crashed, last,
                   ncalls>>

NextFormat == Format

SpecFormat == InitFormat /\ [][NextFormat]_vars

Formatted == fmt # <<>> /\ fmt[1].text # <<>>

\* the digits the claims expect for the error codes
ExpectedDigits(c) ==
    CASE c = 0 -> <<"0">>
      [] c = 8 -> <<"8">>
      [] c = 87 -> <<"8", "7">>
      [] c = 1410 -> <<"1", "4", "1", "0">>

EndsWithCrLf(d) == Len(d) >= 2 /\ d[Len(d) - 1] = "\r" /\ d[Len(d)] = "\n"

\* C18: the text is "<message>: error <code>" followed, when the platform supplies a
\* description, by ": " and the description less one trailing CR LF: a description
\* that does not end in CR LF is appended unchanged, and of several trailing CR LF
\* only the last is removed.
C18_FormatText ==
    Formatted =>
        LET f == fmt[1]
            text == f.text[1]
            head == <<f.message, ": error ">> \o ExpectedDigits(f.error_code)
            body == SubSeq(text, Len(head) + 2, Len(text))
        IN /\ Len(text) >= Len(head)
           /\ SubSeq(text, 1, Len(head)) = head
           /\ ~f.supplied => text = head
           /\ f.supplied =>
                 /\ Len(text) > Len(head)
                 /\ text[Len(head) + 1] = ": "
                 /\ EndsWithCrLf(f.description) => body \o <<"\r", "\n">> = f.description
                 /\ ~EndsWithCrLf(f.description) => body = f.description

\* a description ending in two CR LF keeps the first of them
C18_Witness ==
    /\ Formatted
    /\ fmt[1].supplied
    /\ fmt[1].description = <<"\r", "\n", "\r", "\n">>
    /\ fmt[1].error_code = ERROR_CLASS_ALREADY_EXISTS
    /\ fmt[1].text[1] = <<fmt[1].message, ": error ", "1", "4", "1", "0", ": ", "\r", "\n">>

====
